---- MODULE Spec2Model ----
(***************************************************************************)
(* Model of src/tcp.rs: one side of a TCP connection (passive open,        *)
(* handshake, immediate server-initiated close).                           *)
(*                                                                         *)
(* Sequence numbers are u32 in the source.  The model keeps the wrapping   *)
(* arithmetic but over a ring of 2^SeqBits values, so that every sequence  *)
(* number can be enumerated; windows and segment lengths stay far below    *)
(* half of the ring, as a u16 window does in a u32 space.                  *)
(***************************************************************************)
EXTENDS Integers, Sequences, FiniteSets, TLC

VARIABLES conn, nic, last, failures

vars == <<conn, nic, last, failures>>

----------------------------------------------------------------------------
(* Bounds *)

SeqBits == 4
MaxWnd == 2
MaxLen == 1
MaxSendFailures == 1

Modulus == 2 ^ SeqBits
Half == Modulus \div 2

----------------------------------------------------------------------------
(* Program constants *)

ISS == 0
LocalWnd == 1024

----------------------------------------------------------------------------
(* u32 arithmetic *)

wrapping_add(a, b) == (a + b) % Modulus

wrapping_sub(a, b) == ((a - b) + Modulus) % Modulus

\* tcph.sequence_number() + 1 in accept: plain `+`, which overflows at the
\* top of the range (panic with overflow checks, wrap without).
Overflows(a, b) == a + b >= Modulus

----------------------------------------------------------------------------
(* fn is_between_wrapped(start, x, end) *)

\* is_between_wrapped with `end < x` for `end <= x` in the Less branch
is_between_wrapped_end_inclusive(start, x, end) ==
    IF start = x THEN FALSE
    ELSE IF start < x
         THEN ~(end >= start /\ end < x)
         ELSE (end < start /\ end > x)

\* is_between_wrapped without the `end < start` test of the Greater branch
is_between_wrapped_no_wrap_test(start, x, end) ==
    IF start = x THEN FALSE
    ELSE IF start < x
         THEN ~(end >= start /\ end <= x)
         ELSE end > x

is_between_wrapped(start, x, end) ==
    IF start = x THEN FALSE
    ELSE IF start < x
         THEN ~(end >= start /\ end <= x)
         ELSE (end < start /\ end > x)

----------------------------------------------------------------------------
(* Segments *)

\* segment length: payload bytes, plus one for FIN, plus one for SYN
SegLen(seg) ==
    seg.len + (IF seg.fin THEN 1 ELSE 0) + (IF seg.syn THEN 1 ELSE 0)

\* the acceptance test with the window opened one sequence number too low
SegmentAcceptable_low_start(recv, seg) ==
    LET seqn == seg.seq
        wend == wrapping_add(recv.nxt, recv.wnd)
        slen == SegLen(seg)
    IN  IF slen = 0
        THEN IF recv.wnd = 0
             THEN seqn = recv.nxt
             ELSE is_between_wrapped(wrapping_sub(recv.nxt, 2), seqn, wend)
        ELSE IF recv.wnd = 0
             THEN FALSE
             ELSE \/ is_between_wrapped(wrapping_sub(recv.nxt, 2), seqn, wend)
                  \/ is_between_wrapped(wrapping_sub(recv.nxt, 2),
                                        wrapping_add(seqn, slen - 1), wend)

\* the acceptance test without the test of the last sequence number
SegmentAcceptable_first_only(recv, seg) ==
    LET seqn == seg.seq
        wend == wrapping_add(recv.nxt, recv.wnd)
        slen == SegLen(seg)
    IN  IF slen = 0
        THEN IF recv.wnd = 0
             THEN seqn = recv.nxt
             ELSE is_between_wrapped(wrapping_sub(recv.nxt, 1), seqn, wend)
        ELSE IF recv.wnd = 0
             THEN FALSE
             ELSE is_between_wrapped(wrapping_sub(recv.nxt, 1), seqn, wend)

\* the acceptance test without the sequence number test of the zero window
SegmentAcceptable_zero_window_any(recv, seg) ==
    LET seqn == seg.seq
        wend == wrapping_add(recv.nxt, recv.wnd)
        slen == SegLen(seg)
    IN  IF slen = 0
        THEN IF recv.wnd = 0
             THEN TRUE
             ELSE is_between_wrapped(wrapping_sub(recv.nxt, 1), seqn, wend)
        ELSE IF recv.wnd = 0
             THEN FALSE
             ELSE \/ is_between_wrapped(wrapping_sub(recv.nxt, 1), seqn, wend)
                  \/ is_between_wrapped(wrapping_sub(recv.nxt, 1),
                                        wrapping_add(seqn, slen - 1), wend)

\* the acceptance test of on_packet: TRUE when the code goes on to line 241
SegmentAcceptable(recv, seg) ==
    LET seqn == seg.seq
        wend == wrapping_add(recv.nxt, recv.wnd)
        slen == SegLen(seg)
    IN  IF slen = 0
        THEN IF recv.wnd = 0
             THEN seqn = recv.nxt
             ELSE is_between_wrapped(wrapping_sub(recv.nxt, 1), seqn, wend)
        ELSE IF recv.wnd = 0
             THEN FALSE
             ELSE \/ is_between_wrapped(wrapping_sub(recv.nxt, 1), seqn, wend)
                  \/ is_between_wrapped(wrapping_sub(recv.nxt, 1),
                                        wrapping_add(seqn, slen - 1), wend)

----------------------------------------------------------------------------
(* Connection::write with an empty payload *)

\* the segment serialized from the header template
Stamped(c) ==
    [seq |-> c.send.nxt, ackn |-> c.recv.nxt,
     syn |-> c.tcph.syn, ack |-> c.tcph.ack, fin |-> c.tcph.fin,
     rst |-> c.tcph.rst, wnd |-> c.tcph.window_size]

\* the bookkeeping of write without the clearing of the SYN flag
Written_syn_kept(c) ==
    LET n1 == IF c.tcph.syn THEN wrapping_add(c.send.nxt, 1) ELSE c.send.nxt
        n2 == IF c.tcph.fin THEN wrapping_add(n1, 1) ELSE n1
    IN  [c EXCEPT !.tcph.fin = FALSE,
                  !.send.nxt = n2]

\* the connection after the bookkeeping of write (done before nic.send).
\* The template's sequence and acknowledgment numbers are overwritten at the
\* start of every write and read nowhere else: they live in Stamped only.
Written(c) ==
    LET n1 == IF c.tcph.syn THEN wrapping_add(c.send.nxt, 1) ELSE c.send.nxt
        n2 == IF c.tcph.fin THEN wrapping_add(n1, 1) ELSE n1
    IN  [c EXCEPT !.tcph.syn = FALSE,
                  !.tcph.fin = FALSE,
                  !.send.nxt = n2]

----------------------------------------------------------------------------
(* State *)

\* conn: the Option<Connection> held by the caller, <<>> for None and <<c>>
\*       for Some(c)
\* nic:  every datagram the interface has sent, in order, by its flags and
\*       sequence number
\* last: the final call of the run, recorded in full: its entry point, input
\*       segment, the connection before it, whether the segment passed the
\*       acceptance test, what the call returned and the datagrams it
\*       transmitted.  A run is any sequence of calls followed by one
\*       recorded call; the calls before it leave last untouched, so every
\*       call from every reachable connection state is recorded in some run.
\* failures: number of interface sends of this connection that have failed
\*       (a failed send in accept leaves no connection behind)

States == {"SynRcvd", "Estab", "FinWait1", "FinWait2", "TimeWait"}

NoSegment ==
    [seq |-> 0, ackn |-> 0, syn |-> FALSE, ack |-> FALSE, fin |-> FALSE,
     wnd |-> 0, len |-> 0]

NoCall ==
    [op |-> "none", seg |-> NoSegment, pre |-> <<>>, accepted |-> FALSE,
     result |-> "none", sent |-> <<>>]

Init ==
    /\ conn = <<>>
    /\ nic = <<>>
    /\ last = NoCall
    /\ failures = 0

\* no call has been recorded yet
Running == last.op = "none"

\* a datagram as the log keeps it
Logged(seg) == [seq |-> seg.seq, syn |-> seg.syn, ack |-> seg.ack, fin |-> seg.fin]

LogOf(sent) == [i \in 1 .. Len(sent) |-> Logged(sent[i])]

\* a panic aborts the process, so a call that panics is the final call
Recorded(record, observe) ==
    IF observe THEN last' = record
    ELSE record.result # "Panic" /\ last' = last

----------------------------------------------------------------------------
(* Connection::accept *)

\* the Connection built with recv.nxt = irs, the SYN not counted
NewConnection_syn_not_counted(seg) ==
    [state |-> "SynRcvd",
     send |-> [iss |-> ISS, una |-> ISS, nxt |-> ISS, wnd |-> LocalWnd],
     recv |-> [irs |-> seg.seq, nxt |-> seg.seq, wnd |-> seg.wnd],
     tcph |-> [syn |-> TRUE, ack |-> TRUE, fin |-> FALSE, rst |-> FALSE,
               window_size |-> LocalWnd]]

\* the Connection built at lines 96-132, then marked SYN+ACK (141-142)
NewConnection(seg) ==
    [state |-> "SynRcvd",
     send |-> [iss |-> ISS, una |-> ISS, nxt |-> ISS, wnd |-> LocalWnd],
     recv |-> [irs |-> seg.seq, nxt |-> wrapping_add(seg.seq, 1),
               wnd |-> seg.wnd],
     tcph |-> [syn |-> TRUE, ack |-> TRUE, fin |-> FALSE, rst |-> FALSE,
               window_size |-> LocalWnd]]

\* accept without the SYN test of lines 89-92
AcceptOutcome_no_syn_test(seg, sendOk, checked) ==
    IF Overflows(seg.seq, 1) /\ checked
    THEN [conn |-> <<>>, result |-> "Panic", sent |-> <<>>]
    ELSE LET c == NewConnection(seg)
         IN  IF sendOk
             THEN [conn |-> <<Written(c)>>, result |-> "Some",
                   sent |-> <<Stamped(c)>>]
             ELSE [conn |-> <<>>, result |-> "Err", sent |-> <<>>]

\* what accept does with `seg`; sendOk: nic.send succeeds; checked: the build
\* has overflow checks
AcceptOutcome(seg, sendOk, checked) ==
    IF ~seg.syn
    THEN [conn |-> <<>>, result |-> "None", sent |-> <<>>]
    ELSE IF Overflows(seg.seq, 1) /\ checked
    THEN [conn |-> <<>>, result |-> "Panic", sent |-> <<>>]
    ELSE LET c == NewConnection(seg)
         IN  IF sendOk
             THEN [conn |-> <<Written(c)>>, result |-> "Some",
                   sent |-> <<Stamped(c)>>]
             ELSE [conn |-> <<>>, result |-> "Err", sent |-> <<>>]

PeerSeqs == {1, Modulus - 1}

PeerWindows == 0 .. MaxWnd

AcceptSegments ==
    [seq : PeerSeqs, ackn : {0}, syn : BOOLEAN, ack : BOOLEAN, fin : BOOLEAN,
     wnd : PeerWindows, len : 0 .. MaxLen]

Accept ==
    /\ Running
    /\ conn = <<>>
    /\ \E seg \in AcceptSegments, sendOk \in BOOLEAN, checked \in BOOLEAN,
          observe \in BOOLEAN :
          /\ LET o == AcceptOutcome(seg, sendOk, checked)
             IN  /\ conn' = o.conn
                 /\ nic' = nic \o LogOf(o.sent)
                 /\ Recorded([op |-> "accept", seg |-> seg, pre |-> conn,
                              accepted |-> seg.syn, result |-> o.result,
                              sent |-> o.sent], observe)
                 /\ UNCHANGED failures

----------------------------------------------------------------------------
(* Connection::on_packet *)

\* the acceptable-ack test with SND.NXT excluded
AckAcceptable_nxt_excluded(send, ackn) ==
    is_between_wrapped(send.una, ackn, send.nxt)

\* the acceptable-ack test: SND.UNA < SEG.ACK =< SND.NXT
AckAcceptable(send, ackn) ==
    is_between_wrapped(send.una, ackn, wrapping_add(send.nxt, 1))

\* the FIN handling answering a FIN in TimeWait as it does in FinWait2
FinStep_time_wait_too(c, seg, sent, sendOk) ==
    IF ~seg.fin
    THEN [conn |-> c, result |-> "Ok", sent |-> sent]
    ELSE IF c.state \in {"FinWait2", "TimeWait"}
    THEN LET c1 == [c EXCEPT !.tcph.fin = FALSE]
         IN  IF sendOk
             THEN [conn |-> [Written(c1) EXCEPT !.state = "TimeWait"],
                   result |-> "Ok", sent |-> Append(sent, Stamped(c1))]
             ELSE [conn |-> Written(c1), result |-> "Err", sent |-> sent]
    ELSE [conn |-> c, result |-> "Panic", sent |-> sent]

\* lines 297-307: the inbound segment carries FIN.  c is the connection at
\* that point, sent the datagrams transmitted so far in this call, sendOk
\* tells whether the nic.send of this write succeeds.
FinStep(c, seg, sent, sendOk) ==
    IF ~seg.fin
    THEN [conn |-> c, result |-> "Ok", sent |-> sent]
    ELSE IF c.state = "FinWait2"
    THEN LET c1 == [c EXCEPT !.tcph.fin = FALSE]
         IN  IF sendOk
             THEN [conn |-> [Written(c1) EXCEPT !.state = "TimeWait"],
                   result |-> "Ok", sent |-> Append(sent, Stamped(c1))]
             ELSE [conn |-> Written(c1), result |-> "Err", sent |-> sent]
    ELSE [conn |-> c, result |-> "Panic", sent |-> sent]

\* lines 290-295: our FIN has been ACKed
FinAckedStep(c) ==
    IF c.state = "FinWait1" /\ c.send.una = c.send.iss + 2
    THEN [c EXCEPT !.state = "FinWait2"]
    ELSE c

\* lines 273-307, entered with the state in Estab, FinWait1 or FinWait2.
\* failAt = k > 0: the k-th nic.send of this call fails.
AckStep(c, seg, failAt) ==
    IF ~AckAcceptable(c.send, seg.ackn)
    THEN [conn |-> c, result |-> "Ok", sent |-> <<>>]
    ELSE LET c1 == [c EXCEPT !.send.una = seg.ackn]
         IN  IF seg.len # 0
             THEN [conn |-> c1, result |-> "Panic", sent |-> <<>>]
             ELSE IF c1.state = "Estab"
             THEN LET c2 == [c1 EXCEPT !.tcph.fin = TRUE]
                  IN  IF failAt = 1
                      THEN [conn |-> Written(c2), result |-> "Err",
                            sent |-> <<>>]
                      ELSE FinStep(FinAckedStep(
                                     [Written(c2) EXCEPT !.state = "FinWait1"]),
                                   seg, <<Stamped(c2)>>, failAt # 2)
             ELSE FinStep(FinAckedStep(c1), seg, <<>>, failAt # 1)

\* on_packet setting recv.nxt to seq, the segment length forgotten
OnPacketOutcome_len_forgotten(c, seg, failAt) ==
    IF ~SegmentAcceptable(c.recv, seg)
    THEN [conn |-> c, result |-> "Ok", sent |-> <<>>]
    ELSE LET c1 == [c EXCEPT !.recv.nxt = seg.seq]
         IN  IF ~seg.ack
             THEN [conn |-> c1, result |-> "Ok", sent |-> <<>>]
             ELSE LET c2 == IF c1.state = "SynRcvd"
                                 /\ AckAcceptable(c1.send, seg.ackn)
                            THEN [c1 EXCEPT !.state = "Estab"]
                            ELSE c1
                  IN  IF c2.state \in {"Estab", "FinWait1", "FinWait2"}
                      THEN AckStep(c2, seg, failAt)
                      ELSE FinStep(FinAckedStep(c2), seg, <<>>, failAt # 1)

\* on_packet setting recv.nxt before the acceptance test
OnPacketOutcome_nxt_before_test(c, seg, failAt) ==
    LET c1 == [c EXCEPT !.recv.nxt = wrapping_add(seg.seq, SegLen(seg))]
    IN  IF ~SegmentAcceptable(c.recv, seg)
        THEN [conn |-> c1, result |-> "Ok", sent |-> <<>>]
        ELSE IF ~seg.ack
             THEN [conn |-> c1, result |-> "Ok", sent |-> <<>>]
             ELSE LET c2 == IF c1.state = "SynRcvd"
                                 /\ AckAcceptable(c1.send, seg.ackn)
                            THEN [c1 EXCEPT !.state = "Estab"]
                            ELSE c1
                  IN  IF c2.state \in {"Estab", "FinWait1", "FinWait2"}
                      THEN AckStep(c2, seg, failAt)
                      ELSE FinStep(FinAckedStep(c2), seg, <<>>, failAt # 1)

\* on_packet without the return of lines 245-247 for a segment without ACK
OnPacketOutcome_no_ack_test(c, seg, failAt) ==
    IF ~SegmentAcceptable(c.recv, seg)
    THEN [conn |-> c, result |-> "Ok", sent |-> <<>>]
    ELSE LET c1 == [c EXCEPT !.recv.nxt = wrapping_add(seg.seq, SegLen(seg))]
             c2 == IF c1.state = "SynRcvd"
                        /\ AckAcceptable(c1.send, seg.ackn)
                   THEN [c1 EXCEPT !.state = "Estab"]
                   ELSE c1
         IN  IF c2.state \in {"Estab", "FinWait1", "FinWait2"}
             THEN AckStep(c2, seg, failAt)
             ELSE FinStep(FinAckedStep(c2), seg, <<>>, failAt # 1)

\* the whole of on_packet on connection c
OnPacketOutcome(c, seg, failAt) ==
    IF ~SegmentAcceptable(c.recv, seg)
    THEN [conn |-> c, result |-> "Ok", sent |-> <<>>]
    ELSE LET c1 == [c EXCEPT !.recv.nxt = wrapping_add(seg.seq, SegLen(seg))]
         IN  IF ~seg.ack
             THEN [conn |-> c1, result |-> "Ok", sent |-> <<>>]
             ELSE LET c2 == IF c1.state = "SynRcvd"
                                 /\ AckAcceptable(c1.send, seg.ackn)
                            THEN [c1 EXCEPT !.state = "Estab"]
                            ELSE c1
                  IN  IF c2.state \in {"Estab", "FinWait1", "FinWait2"}
                      THEN AckStep(c2, seg, failAt)
                      ELSE FinStep(FinAckedStep(c2), seg, <<>>, failAt # 1)

SeqOffsets == (0 - (MaxLen + 2)) .. (MaxWnd + 1)

AckOffsets == (0 - 1) .. 2

\* inbound segments around the receive window and around the send space
PacketSegments(c) ==
    { seg \in [seq : { wrapping_add(c.recv.nxt, Modulus + d) : d \in SeqOffsets },
               ackn : { wrapping_add(c.send.una, Modulus + d) : d \in AckOffsets },
               syn : BOOLEAN, ack : BOOLEAN, fin : BOOLEAN,
               wnd : {0}, len : 0 .. MaxLen] :
        ~seg.ack => seg.ackn = c.send.una }

\* which nic.send of the call fails: none (0), the first or the second
FailChoices == IF failures < MaxSendFailures THEN 0 .. 2 ELSE {0}

OnPacket ==
    /\ Running
    /\ conn # <<>>
    /\ \E seg \in PacketSegments(conn[1]), failAt \in FailChoices,
          observe \in BOOLEAN :
          LET o == OnPacketOutcome(conn[1], seg, failAt)
          IN  /\ failAt # 0 => o.result = "Err"
              /\ conn' = <<o.conn>>
              /\ nic' = nic \o LogOf(o.sent)
              /\ Recorded([op |-> "on_packet", seg |-> seg, pre |-> conn,
                           accepted |-> SegmentAcceptable(conn[1].recv, seg),
                           result |-> o.result, sent |-> o.sent], observe)
              /\ failures' = IF o.result = "Err" THEN failures + 1
                             ELSE failures

----------------------------------------------------------------------------

Next == Accept \/ OnPacket

Spec == Init /\ [][Next]_vars

----------------------------------------------------------------------------
(* is_between_wrapped on its own: every triple of the ring, and a rotation *)

Ring == 0 .. (Modulus - 1)

BetweenInit ==
    /\ conn = <<>>
    /\ nic = <<>>
    /\ failures = 0
    /\ last \in [op : {"none"}, start : Ring, x : Ring, end : Ring, k : Ring,
                 result : {FALSE}, rotated : {FALSE}]

BetweenApply ==
    /\ last.op = "none"
    /\ last' = [last EXCEPT
                  !.op = "is_between_wrapped",
                  !.result = is_between_wrapped(last.start, last.x, last.end),
                  !.rotated = is_between_wrapped(wrapping_add(last.start, last.k),
                                                 wrapping_add(last.x, last.k),
                                                 wrapping_add(last.end, last.k))]
    /\ UNCHANGED <<conn, nic, failures>>

BetweenSpec == BetweenInit /\ [][BetweenApply]_vars

----------------------------------------------------------------------------
(* Vocabulary of the properties *)

\* the connection before and after the recorded call
Pre == last.pre[1]

Cur == conn[1]

OnPacketCall == last.op = "on_packet"

AcceptCall == last.op = "accept"

\* distance from a forward to b on the ring
Dist(a, b) == ((b - a) + Modulus) % Modulus

\* a is at or below b, a is below b, in circular order
SeqLeq(a, b) == Dist(a, b) < Half

SeqLt(a, b) == a # b /\ Dist(a, b) < Half

\* x lies in the receive window [recv.nxt, recv.nxt + recv.wnd)
InWindow(recv, x) == Dist(recv.nxt, x) < recv.wnd

\* first sequence number after the segment
SegEnd(seg) == (seg.seq + SegLen(seg)) % Modulus

----------------------------------------------------------------------------
(* C1 *)

\* C1: in FinWait2 reached without a failed send (send.una = send.nxt =
\* iss + 2), an on_packet call with an accepted segment that carries FIN (no
\* SYN, no payload) transmits exactly one segment, with ACK set and FIN
\* clear, leaves recv.nxt = seq + 1 and returns with state TimeWait.
C1_FinInFinWait2 ==
    (/\ OnPacketCall
     /\ failures = 0
     /\ Pre.state = "FinWait2"
     /\ Pre.send.una = (ISS + 2) % Modulus
     /\ Pre.send.nxt = (ISS + 2) % Modulus
     /\ last.seg.fin /\ ~last.seg.syn /\ last.seg.len = 0
     /\ last.accepted)
    => /\ last.result = "Ok"
       /\ Len(last.sent) = 1
       /\ last.sent[1].ack /\ ~last.sent[1].fin
       /\ Cur.recv.nxt = (last.seg.seq + 1) % Modulus
       /\ Cur.state = "TimeWait"

----------------------------------------------------------------------------
(* C2 *)

\* ackn lies in the circular interval (send.una, send.nxt]
AckInSendRange(send, ackn) ==
    /\ 0 < Dist(send.una, ackn)
    /\ Dist(send.una, ackn) <= Dist(send.una, send.nxt)

\* the plain ACK segments of C2, delivered in SynRcvd and accepted
C2_Case ==
    /\ OnPacketCall
    /\ Pre.state = "SynRcvd"
    /\ last.accepted
    /\ last.seg.ack /\ ~last.seg.fin /\ last.seg.len = 0

\* C2: in SynRcvd an accepted segment with ACK, no FIN and no payload whose
\* acknowledgment number lies in (send.una, send.nxt], that is iss + 1, makes
\* a successful call transmit exactly one segment, with FIN set and
\* seq = iss + 1, and return in FinWait1 with send.una = iss + 1 and
\* send.nxt = iss + 2; with an acknowledgment number outside the interval the
\* state stays SynRcvd and nothing is transmitted; and no call made in
\* SynRcvd returns successfully with state Estab.
C2_HandshakeAck ==
    /\ C2_Case =>
         IF AckInSendRange(Pre.send, last.seg.ackn)
         THEN /\ last.seg.ackn = (ISS + 1) % Modulus
              /\ last.result \in {"Ok", "Err"}
              /\ last.result = "Ok" =>
                   /\ Len(last.sent) = 1
                   /\ last.sent[1].fin
                   /\ last.sent[1].seq = (ISS + 1) % Modulus
                   /\ Cur.state = "FinWait1"
                   /\ Cur.send.una = (ISS + 1) % Modulus
                   /\ Cur.send.nxt = (ISS + 2) % Modulus
         ELSE /\ last.result = "Ok"
              /\ Cur.state = "SynRcvd"
              /\ last.sent = <<>>
    /\ (OnPacketCall /\ Pre.state = "SynRcvd" /\ last.result = "Ok")
         => Cur.state # "Estab"

C2_Witness ==
    /\ C2_Case
    /\ last.seg.ackn = (ISS + 1) % Modulus
    /\ last.result = "Ok"
    /\ Cur.state = "FinWait1"
    /\ Len(last.sent) = 1

----------------------------------------------------------------------------
(* C3 *)

\* C3: an accept on a SYN segment that returns a connection returns it in
\* state SynRcvd, having transmitted exactly one segment, with SYN and ACK
\* set, sequence number iss and acknowledgment number peer seq + 1 (mod
\* 2^w); send.una = iss, send.nxt = iss + 1, recv.irs = peer seq and
\* recv.nxt = peer seq + 1.  accept on a SYN returns no connection only when
\* the interface send fails or peer seq + 1 overflows in a checked build.
C3_AcceptSyn ==
    (AcceptCall /\ last.seg.syn) =>
        /\ last.result \in {"Some", "Err", "Panic"}
        /\ last.result = "Panic" => last.seg.seq = Modulus - 1
        /\ last.result = "Some" =>
             /\ conn # <<>>
             /\ Cur.state = "SynRcvd"
             /\ Len(last.sent) = 1
             /\ nic = LogOf(last.sent)
             /\ last.sent[1].syn /\ last.sent[1].ack /\ ~last.sent[1].fin
             /\ last.sent[1].seq = ISS
             /\ last.sent[1].ackn = (last.seg.seq + 1) % Modulus
             /\ Cur.send.iss = ISS
             /\ Cur.send.una = ISS
             /\ Cur.send.nxt = (ISS + 1) % Modulus
             /\ Cur.recv.irs = last.seg.seq
             /\ Cur.recv.nxt = (last.seg.seq + 1) % Modulus

C3_Witness ==
    /\ AcceptCall
    /\ last.seg.syn
    /\ last.result = "Some"
    /\ conn # <<>>
    /\ Len(nic) = 1

----------------------------------------------------------------------------
(* C4 *)

\* C4: accept on a segment without SYN returns Ok(None), leaves no
\* connection and transmits nothing, whatever its other flags, sequence
\* number, window and payload.
C4_AcceptNonSyn ==
    (AcceptCall /\ ~last.seg.syn) =>
        /\ last.result = "None"
        /\ conn = <<>>
        /\ last.sent = <<>>
        /\ nic = <<>>

C4_Witness ==
    /\ AcceptCall
    /\ ~last.seg.syn
    /\ last.seg.ack /\ last.seg.fin /\ last.seg.len > 0
    /\ last.result = "None"

----------------------------------------------------------------------------
(* C5 *)

\* the segment carries nothing new: its sequence range ends at or below
\* recv.nxt (every sequence number it occupies has been received), as is the
\* case of a segment an earlier call accepted
AlreadyReceived(recv, seg) == SeqLeq(SegEnd(seg), recv.nxt)

\* its sequence range lies entirely below recv.nxt
EntirelyBelow(recv, seg) ==
    IF SegLen(seg) = 0 THEN SeqLt(seg.seq, recv.nxt)
    ELSE SeqLeq(SegEnd(seg), recv.nxt)

\* its acknowledgment number is at or below send.una
StaleAck(send, seg) == seg.ack /\ SeqLeq(seg.ackn, send.una)

C5_Redelivered ==
    /\ OnPacketCall
    /\ AlreadyReceived(Pre.recv, last.seg)
    /\ StaleAck(Pre.send, last.seg) \/ EntirelyBelow(Pre.recv, last.seg)

\* C5: no on_packet call moves send.una or recv.nxt backward in circular
\* order, and a redelivered segment (one that carries nothing new) whose
\* acknowledgment number is at or below send.una, or whose sequence range
\* lies entirely below recv.nxt, returns Ok leaving the whole connection
\* (send.una, recv.nxt and the state included) unchanged and transmits
\* nothing.
C5_NoRegress ==
    /\ OnPacketCall =>
         /\ SeqLeq(Pre.send.una, Cur.send.una)
         /\ SeqLeq(Pre.recv.nxt, Cur.recv.nxt)
    /\ C5_Redelivered =>
         /\ last.result = "Ok"
         /\ Cur = Pre
         /\ last.sent = <<>>

\* the ACK that completed the handshake, delivered again in FinWait1
C5_Witness ==
    /\ C5_Redelivered
    /\ Pre.state = "FinWait1"
    /\ last.accepted
    /\ last.seg.ack /\ last.seg.ackn = Pre.send.una
    /\ last.seg.seq = Pre.recv.nxt
    /\ Cur = Pre

----------------------------------------------------------------------------
(* C6 *)

\* a segment with slen > 0 that starts below recv.nxt and ends at or above
\* it, while the receive window is open
C6_Straddles ==
    /\ OnPacketCall
    /\ SegLen(last.seg) > 0
    /\ Pre.recv.wnd > 0
    /\ SeqLt(last.seg.seq, Pre.recv.nxt)
    /\ SeqLeq(Pre.recv.nxt, wrapping_add(last.seg.seq, SegLen(last.seg) - 1))

\* some sequence number of the segment falls inside the receive window
C6_SomeInWindow ==
    \E k \in 0 .. (SegLen(last.seg) - 1) :
        InWindow(Pre.recv, wrapping_add(last.seg.seq, k))

\* C6 as claimed: a straddling segment with any sequence number inside the
\* window is accepted, also when it extends past the end of the window, and
\* then recv.nxt = seq + slen.
C6_AnyByteInWindow ==
    (C6_Straddles /\ C6_SomeInWindow) =>
        /\ last.accepted
        /\ Cur.recv.nxt = SegEnd(last.seg)

\* C6 amended: a straddling segment is accepted exactly when its last
\* sequence number seq + slen - 1 falls inside the receive window (one that
\* extends to or past the end of the window is dropped); on acceptance
\* recv.nxt = seq + slen, slen counting payload bytes, SYN and FIN.
C6_LastInWindow ==
    C6_Straddles =>
        /\ last.accepted <=>
             InWindow(Pre.recv, wrapping_add(last.seg.seq, SegLen(last.seg) - 1))
        /\ last.accepted =>
             Cur.recv.nxt = (last.seg.seq + last.seg.len
                               + (IF last.seg.syn THEN 1 ELSE 0)
                               + (IF last.seg.fin THEN 1 ELSE 0)) % Modulus
        /\ ~last.accepted => Cur = Pre

C6_Witness ==
    /\ C6_Straddles
    /\ last.accepted
    /\ last.seg.syn /\ last.seg.len > 0
    /\ Cur.recv.nxt = SegEnd(last.seg)
    /\ Cur.recv.nxt # Pre.recv.nxt

----------------------------------------------------------------------------
(* C7 *)

\* C7: with recv.wnd = 0 a zero-length segment is accepted iff its sequence
\* number equals recv.nxt and every segment with slen > 0 is rejected; with
\* recv.wnd > 0 a zero-length segment is accepted iff
\* recv.nxt <= seq < recv.nxt + recv.wnd in circular order.
C7_ZeroLength ==
    OnPacketCall =>
        /\ (Pre.recv.wnd = 0 /\ SegLen(last.seg) = 0) =>
             (last.accepted <=> last.seg.seq = Pre.recv.nxt)
        /\ (Pre.recv.wnd = 0 /\ SegLen(last.seg) > 0) => ~last.accepted
        /\ (Pre.recv.wnd > 0 /\ SegLen(last.seg) = 0) =>
             (last.accepted <=> InWindow(Pre.recv, last.seg.seq))
        /\ ~last.accepted => (Cur = Pre /\ last.sent = <<>>)

C7_Witness ==
    /\ OnPacketCall
    /\ Pre.recv.wnd = 0
    /\ SegLen(last.seg) = 0
    /\ last.seg.seq = Pre.recv.nxt
    /\ last.accepted
    /\ last.seg.ack
    /\ Cur.state # Pre.state

----------------------------------------------------------------------------
(* C8, C9 *)

BetweenCall == last.op = "is_between_wrapped"

\* C8: is_between_wrapped(start, x, end) is true iff
\* 0 < (x - start) mod 2^w < (end - start) mod 2^w; in particular it is false
\* when x = start, x = end or start = end.
C8_StrictlyInside ==
    BetweenCall =>
        /\ last.result <=>
             /\ 0 < Dist(last.start, last.x)
             /\ Dist(last.start, last.x) < Dist(last.start, last.end)
        /\ (last.x = last.start \/ last.x = last.end \/ last.start = last.end)
             => ~last.result

\* a true result on an interval that wraps past zero
C8_Witness ==
    /\ BetweenCall
    /\ last.result
    /\ last.end < last.start
    /\ last.x < last.end

\* C9: rotating start, x and end by the same k (mod 2^w) does not change the
\* result of is_between_wrapped.
C9_Rotation == BetweenCall => (last.result <=> last.rotated)

\* a rotation that carries the interval across zero
C9_Witness ==
    /\ BetweenCall
    /\ last.k # 0
    /\ last.result /\ last.rotated
    /\ last.start < last.x /\ last.x < last.end
    /\ wrapping_add(last.end, last.k) < wrapping_add(last.start, last.k)

----------------------------------------------------------------------------
(* C10 *)

\* C10: the receive window that on_packet tests segments against equals the
\* window this connection advertises (the 1024 in the window field of the
\* segments it transmits), whatever window the peer's SYN carried.
C10_RecvWndIsAdvertised ==
    OnPacketCall =>
        /\ Pre.recv.wnd = LocalWnd
        /\ Pre.recv.wnd = Pre.tcph.window_size

----------------------------------------------------------------------------
(* C11 *)

\* number of SYN and FIN flags carried by the datagrams of a call
FlagsSent(sent, i) ==
    (IF sent[i].syn THEN 1 ELSE 0) + (IF sent[i].fin THEN 1 ELSE 0)

SeqUnits(sent) ==
    IF Len(sent) = 0 THEN 0
    ELSE IF Len(sent) = 1 THEN FlagsSent(sent, 1)
    ELSE FlagsSent(sent, 1) + FlagsSent(sent, 2)

\* C11: in every reachable state send.una lies in the circular range
\* [send.iss, send.nxt], and an on_packet call changes send.nxt only by one
\* per SYN or FIN carried by a segment it transmits: a call that transmits
\* nothing, or only the final FIN-less ACK, leaves send.nxt unchanged.
C11_SendSpace ==
    /\ conn # <<>> =>
         Dist(Cur.send.iss, Cur.send.una) <= Dist(Cur.send.iss, Cur.send.nxt)
    /\ OnPacketCall =>
         Cur.send.nxt = wrapping_add(Pre.send.nxt, SeqUnits(last.sent))

----------------------------------------------------------------------------
(* C12 *)

----------------------------------------------------------------------------
(* C13 *)

\* C13: an on_packet call whose segment fails the acceptance test returns
\* Ok, transmits nothing and leaves the connection as it was (state,
\* send.una, send.nxt, recv.nxt and the template flags), in every state.
C13_RejectedIsDropped ==
    (OnPacketCall /\ ~last.accepted) =>
        /\ last.result = "Ok"
        /\ last.sent = <<>>
        /\ Cur.state = Pre.state
        /\ Cur.send = Pre.send
        /\ Cur.recv = Pre.recv
        /\ Cur.tcph = Pre.tcph

\* a rejected FIN+ACK that would otherwise have acknowledged our FIN
C13_Witness ==
    /\ OnPacketCall
    /\ ~last.accepted
    /\ Pre.state = "FinWait1"
    /\ last.seg.ack /\ last.seg.fin
    /\ AckInSendRange(Pre.send, last.seg.ackn)
    /\ Cur = Pre

----------------------------------------------------------------------------
(* C14 *)

\* C14: an accepted segment without the ACK flag causes no state transition
\* and no transmission in any state, also when it carries FIN or payload:
\* the call returns Ok and only recv.nxt changes.
C14_NoAckNoTransition ==
    (OnPacketCall /\ last.accepted /\ ~last.seg.ack) =>
        /\ last.result = "Ok"
        /\ last.sent = <<>>
        /\ Cur.state = Pre.state
        /\ Cur.send = Pre.send
        /\ Cur.tcph = Pre.tcph
        /\ Cur = [Pre EXCEPT !.recv.nxt = SegEnd(last.seg)]

\* an accepted FIN without ACK in FinWait2
C14_Witness ==
    /\ OnPacketCall
    /\ last.accepted
    /\ ~last.seg.ack
    /\ last.seg.fin
    /\ Pre.state = "FinWait2"
    /\ Cur.state = "FinWait2"
    /\ Cur.recv.nxt # Pre.recv.nxt

----------------------------------------------------------------------------
(* C15 *)

\* C15: an accepted plain ACK segment with ack = iss + 2 delivered in
\* FinWait1 sets send.una = iss + 2 and moves the state to FinWait2, and
\* whenever the state is FinWait2 or TimeWait,
\* send.una = send.nxt = iss + 2.
C15_FinAcked ==
    /\ (/\ OnPacketCall
        /\ Pre.state = "FinWait1"
        /\ last.accepted
        /\ last.seg.ack /\ ~last.seg.fin /\ last.seg.len = 0
        /\ last.seg.ackn = (ISS + 2) % Modulus)
       => (Cur.send.una = (ISS + 2) % Modulus /\ Cur.state = "FinWait2")
    /\ (OnPacketCall /\ Pre.state = "FinWait1" /\ Cur.state = "FinWait2")
       => Cur.send.una = (ISS + 2) % Modulus
    /\ (conn # <<>> /\ Cur.state \in {"FinWait2", "TimeWait"})
       => /\ Cur.send.una = (ISS + 2) % Modulus
          /\ Cur.send.nxt = (ISS + 2) % Modulus

----------------------------------------------------------------------------
(* C16 *)

\* C16: over any run at most one transmitted segment carries SYN and at most
\* one carries FIN, and between calls the template carries neither flag: the
\* write that sends a flag clears it.
C16_FlagsSentOnce ==
    /\ Cardinality({i \in 1 .. Len(nic) : nic[i].syn}) <= 1
    /\ Cardinality({i \in 1 .. Len(nic) : nic[i].fin}) <= 1
    /\ conn # <<>> => (~Cur.tcph.syn /\ ~Cur.tcph.fin)

\* a SYN and a FIN have both been sent, and a further segment after them
C16_Witness ==
    /\ Len(nic) = 3
    /\ nic[1].syn
    /\ nic[2].fin
    /\ conn # <<>>
    /\ Cur.state = "TimeWait"

----------------------------------------------------------------------------
(* C17 *)

\* C17: when the interface send of a write fails, the error is returned and
\* send.nxt is as it was before the write, so that every FIN this connection
\* transmits has the sequence number iss + 1.
C17_FailedSendKeepsNxt ==
    /\ (OnPacketCall /\ last.result = "Err" /\ last.sent = <<>>)
       => Cur.send.nxt = Pre.send.nxt
    /\ \A i \in 1 .. Len(nic) :
         nic[i].fin => nic[i].seq = (ISS + 1) % Modulus

----------------------------------------------------------------------------
(* C18 *)

\* C18: the unreachable!() of the FIN handling is never executed: no
\* on_packet call with a segment that carries FIN and no payload panics (the
\* only other panic of on_packet, the assertion of line 279, needs payload).
C18_UnreachableNotReached ==
    (OnPacketCall /\ last.seg.fin /\ last.seg.len = 0)
        => last.result # "Panic"

----------------------------------------------------------------------------
(* C19 *)

Rank(st) ==
    CASE st = "SynRcvd" -> 1
      [] st = "Estab" -> 2
      [] st = "FinWait1" -> 3
      [] st = "FinWait2" -> 4
      [] st = "TimeWait" -> 5

\* the flags of the three datagrams of a connection's life, in order
LifeOrder(i, d) ==
    CASE i = 1 -> d.syn /\ d.ack /\ ~d.fin
      [] i = 2 -> ~d.syn /\ d.fin
      [] i = 3 -> ~d.syn /\ ~d.fin /\ d.ack

\* C19: no on_packet call moves the state to an earlier one of SynRcvd,
\* Estab, FinWait1, FinWait2, TimeWait; TimeWait is never left, and a call
\* made in TimeWait transmits nothing and leaves send.una and send.nxt
\* unchanged; the connection transmits at most three segments, in the order
\* SYN+ACK, FIN, final ACK.
C19_ForwardOnly ==
    /\ OnPacketCall =>
         /\ Rank(Pre.state) <= Rank(Cur.state)
         /\ Pre.state = "TimeWait" =>
              /\ Cur.state = "TimeWait"
              /\ last.sent = <<>>
              /\ Cur.send = Pre.send
    /\ Len(nic) <= 3
    /\ \A i \in 1 .. Len(nic) : LifeOrder(i, nic[i])

\* a call made in TimeWait with a segment that would acknowledge and close
C19_Witness ==
    /\ OnPacketCall
    /\ Pre.state = "TimeWait"
    /\ last.accepted
    /\ last.seg.ack /\ last.seg.fin
    /\ Len(nic) = 3

----------------------------------------------------------------------------
(* C20 *)

\* C20: accept completes for every peer sequence number, 2^w - 1 included,
\* and sets recv.nxt = (irs + 1) mod 2^w: an accept on a SYN whose interface
\* send succeeds returns a connection with that recv.nxt.
C20_AcceptWraps ==
    (AcceptCall /\ last.seg.syn /\ last.result # "Err") =>
        /\ last.result = "Some"
        /\ conn # <<>>
        /\ Cur.recv.nxt = (last.seg.seq + 1) % Modulus

====
